---- MODULE Spec2Model ----
(***************************************************************************)
(* Model of video_enhancer: the parameter mapper (filters.rs), the         *)
(* encoder invocation builder (ffmpeg.rs), the progress stream consumer    *)
(* (progress.rs) and the run of main (main.rs).                            *)
(*                                                                         *)
(* Numbers.  f64 values are modelled as exact fixed-point integers:        *)
(*   - a speed is an integer count of 1e-7 (SU units per 1.0);             *)
(*   - pct_center_norm is an integer count of 1e-2;                        *)
(*   - the filter constants are integer counts of 1e-6;                    *)
(*   - products norm*CONSTANT are integer counts of 1e-8 (E8 per 1.0).     *)
(* A comparison against a decimal threshold that is not a binary fraction  *)
(* (0.0005, 0.001, 2.0+1e-6, 0.5-1e-6) is decided by binary rounding when  *)
(* an operand sits exactly on the threshold, so the sampled speeds stay    *)
(* off these thresholds by at least one unit.                              *)
(***************************************************************************)
EXTENDS Integers, Sequences, FiniteSets, TLC

VARIABLES
    request,      \* the validated EnhancementRequest (AppConfig / Cli fields)
    fpc,          \* position of a mapper run: "idle","request","video","audio","spawned"
    v_parts,      \* `parts` of build_video_filters (history of the last call)
    v_filters,    \* result of build_video_filters: the comma-joined string
    a_filters,    \* Option<String> of build_audio_filters: None or the chain
    a_codec,      \* Vec<&str> of build_audio_filters
    ff_args,      \* the argument vector handed to the encoder by spawn_ffmpeg
    apc,          \* position inside build_audio_filters (step model)
    s,            \* `s` of build_audio_filters: <<numerator, denominator>> in SU
    chain,        \* `chain` of build_audio_filters
    niter,        \* loop iterations build_audio_filters has run
    a_ret,        \* return value of the stepwise build_audio_filters
    pc,           \* position of main
    child,        \* the encoder process: "none","running","exit0","exit1"
    rpc,          \* the consumer thread: "none","reading","ok","err"
    total_ms,     \* ProgressUi.total_ms
    position,     \* bar position
    spinner_msg,  \* spinner message (the stage label)
    bar_msg,      \* bar message
    finished,     \* bar/spinner finished flag
    last,         \* the line the consumer processed last (history)
    seen,         \* the largest out_time_ms value parsed so far, -1 if none (history)
    dur_ms,       \* the probed duration, in milliseconds
    probe,        \* the prober: "none" before it is started, then "ok" or "fail"
    result,       \* the Result main returns: "none","ok","err"
    pcts,         \* a pair <<p, q>> of percentages handed to the knob mappings
    derived       \* the values the knob mappings derive from p and from q

fvars == <<request, fpc, v_parts, v_filters, a_filters, a_codec, ff_args>>
avars == <<apc, s, chain, niter, a_ret>>
uvars == <<total_ms, position, spinner_msg, bar_msg, finished, last, seen>>
rvars == <<pc, child, rpc, dur_ms, probe, result>>
kvars == <<pcts, derived>>
vars == <<request, fpc, v_parts, v_filters, a_filters, a_codec, ff_args,
          apc, s, chain, niter, a_ret, pc, child, rpc,
          total_ms, position, spinner_msg, bar_msg, finished, last, seen,
          dur_ms, probe, result, pcts, derived>>

\* Option<T>: None is the empty tuple, Some(x) the one-element tuple
None == <<>>
Some(x) == <<x>>
Unwrap(o) == o[1]

(***************************************************************************)
(* Units and formatting                                                    *)
(***************************************************************************)
SU == 10000000
E8 == 100000000

Abs(x) == IF x < 0 THEN -x ELSE x

\* x/d rounded to the nearest integer (d > 0), as {:.N} formatting rounds
RoundDiv(x, d) ==
    IF x >= 0 THEN (2 * x + d) \div (2 * d)
              ELSE -((2 * (-x) + d) \div (2 * d))

RECURSIVE Pow10(_)
Pow10(n) == IF n = 0 THEN 1 ELSE 10 * Pow10(n - 1)

\* the decimal digits of n >= 0, zero-padded on the left to width w
RECURSIVE Pad(_, _)
Pad(n, w) == IF w = 0 THEN "" ELSE Pad(n \div 10, w - 1) \o ToString(n % 10)

\* {:.dec}: the text of the value x / 10^dec with exactly dec decimals
FmtFixed(x, dec) ==
    (IF x < 0 THEN "-" ELSE "")
        \o ToString(Abs(x) \div Pow10(dec)) \o "." \o Pad(Abs(x) % Pow10(dec), dec)

\* the decimal digits of a fraction f / 10^w without its trailing zeros
RECURSIVE FracDigits(_, _)
FracDigits(f, w) ==
    IF f % 10 = 0 THEN FracDigits(f \div 10, w - 1) ELSE Pad(f, w)

\* {}: Display of a positive f64 held in SU units: the shortest decimal that
\* reads back as the same value, "3" for 3.0 and "1.25" for 1.25
FmtDisplay(x) ==
    ToString(x \div SU)
        \o (IF x % SU = 0 THEN "" ELSE "." \o FracDigits(x % SU, 7))

(***************************************************************************)
(* filters.rs: constants, in 1e-6                                          *)
(***************************************************************************)
BRIGHTNESS_MAX == 250000
CONTRAST_SPAN == 250000
SAT_SPAN == 250000
SHARP_MAX == 1000000
DENOISE_LUMA_MAX == 1800000
DENOISE_TEMP_MAX == 9000000

\* 1e-6 in E8 units: the neutrality tolerance of the knobs
KnobEps == 100

\* a value in E8 units rounded to 3 and to 6 decimals
Round3(x) == RoundDiv(x, 100000)
Round6(x) == RoundDiv(x, 100)

\* pct_center_norm measuring the distance from the centre in both directions
pct_center_norm_Folded(pct) == 2 * Abs(pct - 50)

\* (pct - 50) / 50, in 1e-2
pct_center_norm(pct) == 2 * (pct - 50)

\* a filter stage: its name, its numeric arguments and its text
Stage(kind, args, text) == [kind |-> kind, args |-> args, text |-> text]

DenoisePart(denoise) ==
    IF denoise = None THEN <<>>
    ELSE LET n0 == pct_center_norm(Unwrap(denoise))
             norm == IF n0 > 0 THEN n0 ELSE 0
             l == Round3(DENOISE_LUMA_MAX * norm)
             t == Round3(DENOISE_TEMP_MAX * norm)
         IN IF norm > 0
            THEN <<Stage("hqdn3d", <<l, l, t, t>>,
                         "hqdn3d=" \o FmtFixed(l, 3) \o ":" \o FmtFixed(l, 3)
                             \o ":" \o FmtFixed(t, 3) \o ":" \o FmtFixed(t, 3))>>
            ELSE <<>>

SharpenPart(sharpen) ==
    IF sharpen = None THEN <<>>
    ELSE LET amt == pct_center_norm(Unwrap(sharpen)) * SHARP_MAX
         IN IF Abs(amt) > KnobEps
            THEN <<Stage("unsharp", <<7, 7, Round3(amt)>>,
                         "unsharp=luma_msize_x=7:luma_msize_y=7:luma_amount="
                             \o FmtFixed(Round3(amt), 3))>>
            ELSE <<>>

ContrastMult(p) == E8 + pct_center_norm(p) * CONTRAST_SPAN
SaturationMult(p) == E8 + pct_center_norm(p) * SAT_SPAN
BrightnessOffset(p) == pct_center_norm(p) * BRIGHTNESS_MAX

\* EqPart without the neutrality test: a set knob always asks for the stage
EqPart_NoNeutralTest(contrast, saturation, brightness) ==
    LET c_on == contrast # None
        s_on == saturation # None
        b_on == brightness # None
        need_eq == c_on \/ s_on \/ b_on
        eq_contrast == Round6(IF c_on THEN ContrastMult(Unwrap(contrast)) ELSE E8)
        eq_saturation == Round6(IF s_on THEN SaturationMult(Unwrap(saturation)) ELSE E8)
        eq_brightness == Round6(IF b_on THEN BrightnessOffset(Unwrap(brightness)) ELSE 0)
    IN IF need_eq
       THEN <<Stage("eq", <<eq_contrast, eq_saturation, eq_brightness>>,
                    "eq=contrast=" \o FmtFixed(eq_contrast, 6)
                        \o ":saturation=" \o FmtFixed(eq_saturation, 6)
                        \o ":brightness=" \o FmtFixed(eq_brightness, 6))>>
       ELSE <<>>

EqPart(contrast, saturation, brightness) ==
    LET c_on == contrast # None
                  /\ Abs(ContrastMult(Unwrap(contrast)) - E8) > KnobEps
        s_on == saturation # None
                  /\ Abs(SaturationMult(Unwrap(saturation)) - E8) > KnobEps
        b_on == brightness # None
                  /\ Abs(BrightnessOffset(Unwrap(brightness))) > KnobEps
        need_eq == c_on \/ s_on \/ b_on
        eq_contrast == Round6(IF c_on THEN ContrastMult(Unwrap(contrast)) ELSE E8)
        eq_saturation == Round6(IF s_on THEN SaturationMult(Unwrap(saturation)) ELSE E8)
        eq_brightness == Round6(IF b_on THEN BrightnessOffset(Unwrap(brightness)) ELSE 0)
    IN IF need_eq
       THEN <<Stage("eq", <<eq_contrast, eq_saturation, eq_brightness>>,
                    "eq=contrast=" \o FmtFixed(eq_contrast, 6)
                        \o ":saturation=" \o FmtFixed(eq_saturation, 6)
                        \o ":brightness=" \o FmtFixed(eq_brightness, 6))>>
       ELSE <<>>

ScalePart(scale_height) ==
    IF scale_height = None THEN <<>>
    ELSE <<Stage("scale", <<-2, Unwrap(scale_height)>>,
                 "scale=-2:" \o ToString(Unwrap(scale_height)))>>

\* 0.000_5 in SU units
VideoSpeedEps == 5000

SpeedPart(speed) ==
    IF Abs(speed - SU) > VideoSpeedEps
    THEN <<Stage("setpts", <<speed>>, "setpts=PTS/" \o FmtDisplay(speed))>>
    ELSE <<>>

\* build_video_parts with the speed stage pushed before the scale stage
build_video_parts_SpeedBeforeScale(speed, denoise, scale_height, sharpen, contrast, saturation, brightness) ==
    DenoisePart(denoise) \o SharpenPart(sharpen)
        \o EqPart(contrast, saturation, brightness)
        \o SpeedPart(speed) \o ScalePart(scale_height)

\* the `parts` vector of build_video_filters at its return
build_video_parts(speed, denoise, scale_height, sharpen, contrast, saturation, brightness) ==
    DenoisePart(denoise) \o SharpenPart(sharpen)
        \o EqPart(contrast, saturation, brightness)
        \o ScalePart(scale_height) \o SpeedPart(speed)

\* Vec<String>::join(",")
RECURSIVE JoinComma(_)
JoinComma(parts) ==
    IF Len(parts) = 0 THEN ""
    ELSE IF Len(parts) = 1 THEN parts[1].text
    ELSE parts[1].text \o "," \o JoinComma(Tail(parts))

build_video_filters(speed, denoise, scale_height, sharpen, contrast, saturation, brightness) ==
    JoinComma(build_video_parts(speed, denoise, scale_height, sharpen,
                                contrast, saturation, brightness))

(***************************************************************************)
(* filters.rs: build_audio_filters.  `s` is the exact rational            *)
(* <<numerator, denominator>> in SU units; halving and doubling an f64 are *)
(* exact, so the loop is modelled exactly.                                 *)
(***************************************************************************)
\* 0.001, 1e-3 and 1e-6 in SU units
AudioSpeedEps == 10000
ResidualEps == 10000
LoopEps == 10

\* AudioCopy with the tolerance of the video retiming, 0.0005
AudioCopy_VideoEps(speed) == Abs(speed - SU) < VideoSpeedEps

AudioCopy(speed) == Abs(speed - SU) < AudioSpeedEps

\* if s > 2.0 / else if s < 0.5
HiBranch(sv) == sv[1] > 2 * SU * sv[2]
LoBranch(sv) == 2 * sv[1] < SU * sv[2]

\* while s > 2.0 + 1e-6 { chain.push("atempo=2.0"); s /= 2.0 }
HiCond(sv) == sv[1] > (2 * SU + LoopEps) * sv[2]
HiStep(sv) == <<sv[1], 2 * sv[2]>>
AtempoDouble == Stage("atempo", <<2000000>>, "atempo=2.0")

\* while s < 0.5 - 1e-6 { chain.push("atempo=0.5"); s /= 0.5 }

\* LoCond that tests the doubled factor: while s * 2.0 < 0.5
LoCond_Doubled(sv) == 4 * sv[1] < SU * sv[2]

LoCond(sv) == 2 * sv[1] < (SU - 2 * LoopEps) * sv[2]
LoStep(sv) == <<2 * sv[1], sv[2]>>
AtempoHalf == Stage("atempo", <<500000>>, "atempo=0.5")

\* if (s - 1.0).abs() > 1e-3 { chain.push(format!("atempo={s:.6}")) }

\* NeedResidual with the loop tolerance 1e-6 in place of 1e-3
NeedResidual_LoopEps(sv) == Abs(sv[1] - SU * sv[2]) > LoopEps * sv[2]

NeedResidual(sv) == Abs(sv[1] - SU * sv[2]) > ResidualEps * sv[2]
ResidualStage(sv) ==
    LET r == RoundDiv(sv[1], 10 * sv[2])
    IN Stage("atempo", <<r>>, "atempo=" \o FmtFixed(r, 6))

CodecCopy == <<"-c:a", "copy">>
CodecAac == <<"-c:a", "aac", "-b:a", "192k">>

RECURSIVE ReduceHi(_, _)
ReduceHi(sv, ch) ==
    IF HiCond(sv) THEN ReduceHi(HiStep(sv), Append(ch, AtempoDouble))
    ELSE <<sv, ch>>

RECURSIVE ReduceLo(_, _)
ReduceLo(sv, ch) ==
    IF LoCond(sv) THEN ReduceLo(LoStep(sv), Append(ch, AtempoHalf))
    ELSE <<sv, ch>>

\* `s` and `chain` after the range reduction of lines 112-122
Reduce(speed) ==
    IF HiBranch(<<speed, 1>>) THEN ReduceHi(<<speed, 1>>, <<>>)
    ELSE IF LoBranch(<<speed, 1>>) THEN ReduceLo(<<speed, 1>>, <<>>)
    ELSE <<(<<speed, 1>>), <<>>>>

\* the `chain` vector of build_audio_filters before the join
build_audio_chain(speed) ==
    LET red == Reduce(speed)
    IN IF NeedResidual(red[1]) THEN Append(red[2], ResidualStage(red[1]))
       ELSE red[2]

\* (Option<String>, Vec<&'static str>)
build_audio_filters(speed) ==
    IF AudioCopy(speed)
    THEN <<None, CodecCopy>>
    ELSE <<Some(JoinComma(build_audio_chain(speed))), CodecAac>>

(***************************************************************************)
(* ffmpeg.rs: spawn_ffmpeg builds the encoder's argument vector            *)
(***************************************************************************)

\* VideoArgs that re-encodes whatever the filter string is
VideoArgs_AlwaysEncode(cfg, video_filters) ==
    <<"-vf", video_filters, "-c:v", "libx264", "-crf", ToString(cfg.crf),
      "-preset", cfg.preset, "-pix_fmt", "yuv420p",
      "-threads", ToString(cfg.threads)>>

VideoArgs(cfg, video_filters) ==
    IF video_filters # ""
    THEN <<"-vf", video_filters, "-c:v", "libx264", "-crf", ToString(cfg.crf),
           "-preset", cfg.preset, "-pix_fmt", "yuv420p",
           "-threads", ToString(cfg.threads)>>
    ELSE <<"-c:v", "copy">>
             \o (IF cfg.threads > 0 THEN <<"-threads", ToString(cfg.threads)>>
                 ELSE <<>>)

AudioArgs(audio_filters, audio_codec) ==
    IF audio_filters # None
    THEN <<"-af", Unwrap(audio_filters)>> \o audio_codec
    ELSE <<"-c:a", "copy">>

spawn_ffmpeg(cfg, video_filters, audio_filters, audio_codec) ==
    (IF ~cfg.verbose THEN <<"-hide_banner", "-nostats", "-loglevel", "error">>
     ELSE <<>>)
        \o <<"-y", "-progress", "-", "-i", cfg.input>>
        \o VideoArgs(cfg, video_filters)
        \o AudioArgs(audio_filters, audio_codec)
        \o <<cfg.output>>

(***************************************************************************)
(* Sampled inputs                                                          *)
(***************************************************************************)
\* the speeds 0.05, 0.10, ... : k * 0.05 for k in 1..MaxSpeedK
MaxSpeedK == 80
GridSpeeds == {k * (SU \div 20) : k \in 1..MaxSpeedK}

\* speeds next to the thresholds of the mapper, off the thresholds themselves
Anchors == {SU \div 2, SU, 2 * SU, 4 * SU}
NearOffsets == {3, 8, 12, 16, 24, 4000, 7000, 12000}
NearSpeeds == {a + d : a \in Anchors, d \in NearOffsets}
                 \cup {a - d : a \in Anchors, d \in NearOffsets}
TinySpeeds == {1, 12345}
Speeds == GridSpeeds \cup NearSpeeds \cup TinySpeeds

NearOne == {SU, SU + 4000, SU - 4000, SU + 7000, SU - 7000, (5 * SU) \div 4}

PctSamples == {0, 50, 75, 100}
OptPct == {None} \cup {Some(p) : p \in PctSamples}
OptScale == {None, Some(720)}

Cfg(speed, denoise, scale, sharpen, contrast, saturation, brightness, verbose, threads) ==
    [input |-> "in.mp4", input_exists |-> TRUE, tools_found |-> TRUE,
     output |-> "out.mp4", speed |-> speed, crf |-> 17,
     preset |-> "slow", denoise |-> denoise, scale |-> scale,
     sharpen |-> sharpen, contrast |-> contrast, saturation |-> saturation,
     brightness |-> brightness, verbose |-> verbose, threads |-> threads]

\* every knob combination at the speeds around 1.0
KnobRequests ==
    {Cfg(sp, dn, sc, sh, co, sa, br, FALSE, 0) :
        sp \in NearOne, dn \in OptPct, sc \in OptScale, sh \in OptPct,
        co \in OptPct, sa \in OptPct, br \in OptPct}

\* every sampled speed with no knob set
SpeedRequests ==
    {Cfg(sp, None, None, None, None, None, None, vb, th) :
        sp \in Speeds, vb \in BOOLEAN, th \in {0, 4}}

NoRequest == Cfg(SU, None, None, None, None, None, None, FALSE, 0)

(***************************************************************************)
(* Initial values of the parts a specification does not use                *)
(***************************************************************************)
MapperIdle ==
    /\ fpc = "idle" /\ v_parts = <<>> /\ v_filters = ""
    /\ a_filters = None /\ a_codec = <<>> /\ ff_args = <<>>

AudioIdle ==
    /\ apc = "idle" /\ s = <<SU, 1>> /\ chain = <<>> /\ niter = 0
    /\ a_ret = <<None, <<>>>>

UiIdle ==
    /\ total_ms = 1 /\ position = 0 /\ spinner_msg = "" /\ bar_msg = ""
    /\ finished = FALSE /\ last = None /\ seen = -1

RunIdle ==
    /\ pc = "idle" /\ child = "none" /\ rpc = "none" /\ dur_ms = 0
    /\ probe = "none" /\ result = "none"

KnobIdle ==
    /\ pcts = <<50, 50>> /\ derived = None

(***************************************************************************)
(* The parameter mapper applied to a request, in the order main calls it   *)
(***************************************************************************)
InitFilters ==
    /\ request \in KnobRequests \cup SpeedRequests
    /\ fpc = "request" /\ v_parts = <<>> /\ v_filters = ""
    /\ a_filters = None /\ a_codec = <<>> /\ ff_args = <<>>
    /\ AudioIdle /\ UiIdle /\ RunIdle /\ KnobIdle

MapVideo ==
    /\ fpc = "request"
    /\ v_parts' = build_video_parts(request.speed, request.denoise, request.scale,
                                    request.sharpen, request.contrast,
                                    request.saturation, request.brightness)
    /\ v_filters' = build_video_filters(request.speed, request.denoise, request.scale,
                                        request.sharpen, request.contrast,
                                        request.saturation, request.brightness)
    /\ fpc' = "video"
    /\ UNCHANGED <<kvars, request, a_filters, a_codec, ff_args, avars, uvars, rvars>>

MapAudio ==
    /\ fpc = "video"
    /\ a_filters' = build_audio_filters(request.speed)[1]
    /\ a_codec' = build_audio_filters(request.speed)[2]
    /\ fpc' = "audio"
    /\ UNCHANGED <<kvars, request, v_parts, v_filters, ff_args, avars, uvars, rvars>>

SpawnArgs ==
    /\ fpc = "audio"
    /\ ff_args' = spawn_ffmpeg(request, v_filters, a_filters, a_codec)
    /\ fpc' = "spawned"
    /\ UNCHANGED <<kvars, request, v_parts, v_filters, a_filters, a_codec, avars, uvars, rvars>>

NextFilters == MapVideo \/ MapAudio \/ SpawnArgs

SpecFilters == InitFilters /\ [][NextFilters]_vars

(***************************************************************************)
(* build_audio_filters, one step per branch and per loop iteration         *)
(***************************************************************************)
InitAudio ==
    /\ request \in {Cfg(sp, None, None, None, None, None, None, FALSE, 0) : sp \in Speeds}
    /\ apc = "entry" /\ s = <<request.speed, 1>> /\ chain = <<>> /\ niter = 0
    /\ a_ret = <<None, <<>>>>
    /\ MapperIdle /\ UiIdle /\ RunIdle /\ KnobIdle

AudioReturnCopy ==
    /\ apc = "entry"
    /\ AudioCopy(request.speed)
    /\ a_ret' = <<None, CodecCopy>>
    /\ apc' = "done"
    /\ UNCHANGED <<kvars, s, chain, niter, fvars, uvars, rvars>>

AudioEnter ==
    /\ apc = "entry"
    /\ ~AudioCopy(request.speed)
    /\ apc' = IF HiBranch(s) THEN "hi" ELSE IF LoBranch(s) THEN "lo" ELSE "residual"
    /\ UNCHANGED <<kvars, s, chain, niter, a_ret, fvars, uvars, rvars>>

AudioLoopHi ==
    /\ apc = "hi"
    /\ HiCond(s)
    /\ chain' = Append(chain, AtempoDouble)
    /\ s' = HiStep(s)
    /\ niter' = niter + 1
    /\ UNCHANGED <<kvars, apc, a_ret, fvars, uvars, rvars>>

AudioLoopLo ==
    /\ apc = "lo"
    /\ LoCond(s)
    /\ chain' = Append(chain, AtempoHalf)
    /\ s' = LoStep(s)
    /\ niter' = niter + 1
    /\ UNCHANGED <<kvars, apc, a_ret, fvars, uvars, rvars>>

AudioLoopExit ==
    /\ \/ apc = "hi" /\ ~HiCond(s)
       \/ apc = "lo" /\ ~LoCond(s)
    /\ apc' = "residual"
    /\ UNCHANGED <<kvars, s, chain, niter, a_ret, fvars, uvars, rvars>>

AudioResidual ==
    /\ apc = "residual"
    /\ chain' = IF NeedResidual(s) THEN Append(chain, ResidualStage(s)) ELSE chain
    /\ a_ret' = <<Some(JoinComma(chain')), CodecAac>>
    /\ apc' = "done"
    /\ UNCHANGED <<kvars, s, niter, fvars, uvars, rvars>>

NextAudio ==
    \/ AudioReturnCopy \/ AudioEnter \/ AudioLoopHi \/ AudioLoopLo
    \/ AudioLoopExit \/ AudioResidual

SpecAudio == InitAudio /\ [][NextAudio]_vars

\* the function runs on one thread that is never suspended for ever
SpecAudioFair == SpecAudio /\ WF_vars(NextAudio)

(***************************************************************************)
(* The values the mapper derives from one percentage, for each knob        *)
(***************************************************************************)
\* the largest percentage the argument parser accepts
PctMax == 100

\* the arguments of the stage a knob alone produces, 0 when it produces none
DenoiseLuma(p) ==
    IF DenoisePart(Some(p)) = <<>> THEN 0 ELSE DenoisePart(Some(p))[1].args[1]
DenoiseTemporal(p) ==
    IF DenoisePart(Some(p)) = <<>> THEN 0 ELSE DenoisePart(Some(p))[1].args[3]
SharpenAmount(p) ==
    IF SharpenPart(Some(p)) = <<>> THEN 0 ELSE SharpenPart(Some(p))[1].args[3]

KnobValues(p) ==
    [norm |-> pct_center_norm(p),
     luma |-> DenoiseLuma(p),
     temporal |-> DenoiseTemporal(p),
     sharpen |-> SharpenAmount(p),
     contrast |-> ContrastMult(p),
     saturation |-> SaturationMult(p),
     brightness |-> BrightnessOffset(p)]

\* every pair of percentages p <= q the parser accepts
InitKnobs ==
    /\ pcts \in {<<p, q>> : p \in 0..PctMax, q \in 0..PctMax}
    /\ pcts[1] <= pcts[2]
    /\ derived = None
    /\ request = NoRequest
    /\ MapperIdle /\ AudioIdle /\ UiIdle /\ RunIdle

\* the mapper's arithmetic applied to both percentages
ApplyKnobs ==
    /\ derived = None
    /\ derived' = Some([lo |-> KnobValues(pcts[1]), hi |-> KnobValues(pcts[2])])
    /\ UNCHANGED <<pcts, fvars, avars, uvars, rvars>>

NextKnobs == ApplyKnobs

SpecKnobs == InitKnobs /\ [][NextKnobs]_vars

(***************************************************************************)
(* cli.rs: target_duration_ms.  A duration is an integer count of          *)
(* milliseconds, a speed an integer count of SU units.                     *)
(***************************************************************************)
RECURSIVE GCD(_, _)
GCD(a, b) == IF b = 0 THEN a ELSE GCD(b, a % b)

\* 0.000_5 in SU units
TargetSpeedEps == 5000

\* target_duration_ms without .max(1.0)
target_duration_ms_NoMax(original_ms, speed) ==
    LET g == GCD(SU, speed)
    IN IF Abs(speed - SU) < TargetSpeedEps
       THEN original_ms
       ELSE (original_ms * (SU \div g)) \div (speed \div g)

\* (target_seconds * 1000.0).max(1.0) as u64
target_duration_ms(original_ms, speed) ==
    LET g == GCD(SU, speed)
        target == IF Abs(speed - SU) < TargetSpeedEps
                  THEN original_ms
                  ELSE (original_ms * (SU \div g)) \div (speed \div g)
    IN IF target < 1 THEN 1 ELSE target

\* the longest probed duration, in ms, the total is computed for on its own
MaxDurMs == 40

\* the total computed for every short duration and every sampled speed
InitTarget ==
    /\ request \in {Cfg(sp, None, None, None, None, None, None, FALSE, 0) : sp \in Speeds}
    /\ dur_ms \in 0..MaxDurMs
    /\ pc = "target" /\ child = "none" /\ rpc = "none"
    /\ probe = "ok" /\ result = "none"
    /\ MapperIdle /\ AudioIdle /\ UiIdle /\ KnobIdle

\* let target_s = ...; let total_ms = (target_s * 1000.0).max(1.0) as u64
ComputeTotal ==
    /\ pc = "target"
    /\ total_ms' = target_duration_ms(dur_ms, request.speed)
    /\ pc' = "totalled"
    /\ UNCHANGED <<kvars, child, rpc, dur_ms, probe, result, fvars, avars,
                   position, spinner_msg, bar_msg, finished, last, seen>>

NextTarget == ComputeTotal

SpecTarget == InitTarget /\ [][NextTarget]_vars

(***************************************************************************)
(* progress.rs: the lines of the progress stream are sequences of          *)
(* characters, matched and parsed as the consumer does                     *)
(***************************************************************************)
Digits == <<"0", "1", "2", "3", "4", "5", "6", "7", "8", "9">>
DigitChars == {Digits[i] : i \in 1..10}
Letters ==
    {"a", "b", "c", "d", "e", "f", "g", "h", "i", "j", "k", "l", "m", "n",
     "o", "p", "q", "r", "s", "t", "u", "v", "w", "x", "y", "z",
     "A", "B", "C", "D", "E", "F", "G", "H", "I", "J", "K", "L", "M", "N",
     "O", "P", "Q", "R", "S", "T", "U", "V", "W", "X", "Y", "Z"}
\* \w and [\w\-\.:]
WordChars == Letters \cup DigitChars \cup {"_"}

\* ValueChars with the slash admitted as well
ValueChars_WithSlash == WordChars \cup {"-", ".", ":", "/"}

ValueChars == WordChars \cup {"-", ".", ":"}

\* Regex ^(\w+)=([\w\-\.:]+)$ : Some(<<key, value>>) or None.  Neither class
\* holds '=', so the only split is at the first '='.
re_kv_captures(line) ==
    LET eqs == {i \in 1..Len(line) : line[i] = "="}
    IN IF eqs = {} THEN None
       ELSE LET i == CHOOSE k \in eqs : \A j \in eqs : k <= j
                key == SubSeq(line, 1, i - 1)
                val == SubSeq(line, i + 1, Len(line))
            IN IF /\ Len(key) > 0 /\ Len(val) > 0
                  /\ \A j \in 1..Len(key) : key[j] \in WordChars
                  /\ \A j \in 1..Len(val) : val[j] \in ValueChars
               THEN Some(<<key, val>>)
               ELSE None

DigitVal(c) == (CHOOSE i \in 1..10 : Digits[i] = c) - 1

RECURSIVE DecValue(_)
DecValue(ds) ==
    IF Len(ds) = 0 THEN 0
    ELSE 10 * DecValue(SubSeq(ds, 1, Len(ds) - 1)) + DigitVal(ds[Len(ds)])

RECURSIVE StripZeros(_)
StripZeros(ds) ==
    IF Len(ds) > 1 /\ ds[1] = "0" THEN StripZeros(Tail(ds)) ELSE ds

\* u64::MAX has 20 decimal digits
U64Digits == 20

\* val.parse::<u64>(): Some(value) or None for Err.  The sampled values have
\* at most 9 or more than 20 significant digits.
ParseU64(val) ==
    IF \E j \in 1..Len(val) : val[j] \notin DigitChars THEN None
    ELSE IF Len(StripZeros(val)) > U64Digits THEN None
    ELSE Some(DecValue(StripZeros(val)))

\* .unwrap_or(0)
UnwrapOr(o, d) == IF o = None THEN d ELSE Unwrap(o)

KeyOutTimeMs == <<"o", "u", "t", "_", "t", "i", "m", "e", "_", "m", "s">>
KeyProgress == <<"p", "r", "o", "g", "r", "e", "s", "s">>
ValEnd == <<"e", "n", "d">>

\* ProgressUi::new
UiNew(total, audio_time_stretch) ==
    [position |-> 0,
     spinner_msg |-> "Preparing.",
     bar_msg |-> IF audio_time_stretch
                 THEN "Audio will be time-stretched (atempo)..."
                 ELSE "Building filter graph.",
     finished |-> FALSE]

\* update_stage with pct <= 0.10 as its first test
update_stage_Inclusive(ui, total, pos_ms) ==
    IF 10 * pos_ms <= total
    THEN [ui EXCEPT !.position = pos_ms,
                    !.spinner_msg = "Preparing filters.",
                    !.bar_msg = "Applying selected filters (if any)..."]
    ELSE IF 20 * pos_ms < 13 * total
    THEN [ui EXCEPT !.position = pos_ms,
                    !.spinner_msg = "Encoding video.",
                    !.bar_msg = "Processing frames..."]
    ELSE IF 20 * pos_ms < 19 * total
    THEN [ui EXCEPT !.position = pos_ms,
                    !.spinner_msg = "Adjusting/encoding audio.",
                    !.bar_msg = "Applying atempo (if speed != 1.0)..."]
    ELSE [ui EXCEPT !.position = pos_ms,
                    !.spinner_msg = "Finalizing and muxing.",
                    !.bar_msg = "Muxing, writing headers, closing output..."]

\* ProgressUi::update_stage: pct = pos_ms / total_ms compared with 0.10, 0.65, 0.95
update_stage(ui, total, pos_ms) ==
    IF 10 * pos_ms < total
    THEN [ui EXCEPT !.position = pos_ms,
                    !.spinner_msg = "Preparing filters.",
                    !.bar_msg = "Applying selected filters (if any)..."]
    ELSE IF 20 * pos_ms < 13 * total
    THEN [ui EXCEPT !.position = pos_ms,
                    !.spinner_msg = "Encoding video.",
                    !.bar_msg = "Processing frames..."]
    ELSE IF 20 * pos_ms < 19 * total
    THEN [ui EXCEPT !.position = pos_ms,
                    !.spinner_msg = "Adjusting/encoding audio.",
                    !.bar_msg = "Applying atempo (if speed != 1.0)..."]
    ELSE [ui EXCEPT !.position = pos_ms,
                    !.spinner_msg = "Finalizing and muxing.",
                    !.bar_msg = "Muxing, writing headers, closing output..."]

\* finish with the position reset to the start instead of moved to the length
finish_Rewind(ui, total) ==
    [ui EXCEPT !.position = 0, !.spinner_msg = "Completed",
               !.bar_msg = "Done", !.finished = TRUE]

\* ProgressUi::finish: finish_with_message marks the bar finished, moves its
\* position to its length and sets the message
finish(ui, total) ==
    [ui EXCEPT !.position = total, !.spinner_msg = "Completed",
               !.bar_msg = "Done", !.finished = TRUE]

Min(a, b) == IF a < b THEN a ELSE b

\* ClampPos without the clamp
ClampPos_NoMin(ms, total) == ms \div 1000

\* (ms / 1000).min(ui.total_ms)
ClampPos(ms, total) == Min(ms \div 1000, total)

\* HandleCaps with an unparseable out_time_ms value skipped instead of zeroed
HandleCaps_SkipUnparsed(ui, total, caps) ==
    IF caps = None THEN ui
    ELSE LET key == Unwrap(caps)[1]
             val == Unwrap(caps)[2]
         IN IF key = KeyOutTimeMs
            THEN IF ParseU64(val) = None THEN ui
                 ELSE update_stage(ui, total, ClampPos(Unwrap(ParseU64(val)), total))
            ELSE IF key = KeyProgress /\ val = ValEnd
            THEN finish(ui, total)
            ELSE ui

\* the body of `if let Some(caps) = re_kv.captures(&line)`, given the captures
HandleCaps(ui, total, caps) ==
    IF caps = None THEN ui
    ELSE LET key == Unwrap(caps)[1]
             val == Unwrap(caps)[2]
         IN IF key = KeyOutTimeMs
            THEN update_stage(ui, total, ClampPos(UnwrapOr(ParseU64(val), 0), total))
            ELSE IF key = KeyProgress /\ val = ValEnd
            THEN finish(ui, total)
            ELSE ui

\* the body of the `for line in reader.lines()` loop of pump_progress
HandleLine(ui, total, line) == HandleCaps(ui, total, re_kv_captures(line))

(***************************************************************************)
(* Sampled progress lines                                                  *)
(***************************************************************************)
RECURSIVE NumChars(_)
NumChars(n) ==
    IF n < 10 THEN <<Digits[n + 1]>>
    ELSE Append(NumChars(n \div 10), Digits[(n % 10) + 1])

KvLine(key, val) == key \o <<"=">> \o val

\* out_time_ms values (microseconds) on both sides of each stage boundary
\* of a 10000 ms total, and beyond the total
OutTimeSamples ==
    {0, 999, 999999, 1000000, 5000000, 6499999, 6500000, 9499999, 9500000,
     10000000, 12000000}
OutTimeLines == {KvLine(KeyOutTimeMs, NumChars(v)) : v \in OutTimeSamples}

LineEnd == KvLine(KeyProgress, ValEnd)
LineContinue == KvLine(KeyProgress, <<"c", "o", "n", "t", "i", "n", "u", "e">>)
LineNA == KvLine(KeyOutTimeMs, <<"N", "/", "A">>)
LineNegative == KvLine(KeyOutTimeMs, <<"-", "5">>)
LineOverflow == KvLine(KeyOutTimeMs, [i \in 1..23 |-> "9"])
LineLeadingZeros == KvLine(KeyOutTimeMs, <<"0", "0", "7", "0", "0", "0", "0", "0", "0">>)
LineFrame == KvLine(<<"f", "r", "a", "m", "e">>, <<"1", "0">>)
LineOutTime ==
    KvLine(<<"o", "u", "t", "_", "t", "i", "m", "e">>,
           <<"0", "0", ":", "0", "0", ":", "0", "5", ".", "0", "0", "0">>)
LineEmpty == <<>>
LineNoEq == <<"f", "r", "a", "m", "e", " ", "1", "0">>
LineNoKey == <<"=", "5">>
LineTwoEq == <<"a", "=", "b", "=", "c">>

OtherLines ==
    {LineEnd, LineContinue, LineNA, LineNegative, LineOverflow,
     LineLeadingZeros, LineFrame, LineOutTime, LineEmpty, LineNoEq,
     LineNoKey, LineTwoEq}

Lines == OutTimeLines \cup OtherLines

(***************************************************************************)
(* main.rs: one run                                                        *)
(***************************************************************************)
RunSpeeds == {SU, (5 * SU) \div 4, SU + 7000}
BadSpeeds == {0, -SU}
\* probed durations: 0 s, 10 s
Durations == {0, 10000}

RunRequests ==
    {[Cfg(sp, None, None, None, None, None, None, FALSE, 0)
        EXCEPT !.input_exists = ie, !.tools_found = tf] :
        sp \in RunSpeeds \cup BadSpeeds, ie \in BOOLEAN, tf \in BOOLEAN}

Init ==
    /\ request \in RunRequests
    /\ pc = "start" /\ child = "none" /\ rpc = "none" /\ dur_ms = 0
    /\ probe = "none" /\ result = "none"
    /\ MapperIdle /\ AudioIdle /\ UiIdle /\ KnobIdle

\* Validate without the input.exists() test
Validate_NoInputCheck ==
    /\ pc = "start"
    /\ IF request.tools_found /\ request.speed > 0
       THEN pc' = "validated" /\ result' = result
       ELSE pc' = "done" /\ result' = "err"
    /\ UNCHANGED <<kvars, child, rpc, dur_ms, probe, fvars, avars, uvars>>

\* main: ensure_in_path, input.exists(), speed > 0
Validate ==
    /\ pc = "start"
    /\ IF request.tools_found /\ request.input_exists /\ request.speed > 0
       THEN pc' = "validated" /\ result' = result
       ELSE pc' = "done" /\ result' = "err"
    /\ UNCHANGED <<kvars, child, rpc, dur_ms, probe, fvars, avars, uvars>>

\* probe_duration_seconds returns a duration
ProbeOk ==
    /\ pc = "validated"
    /\ \E d \in Durations : dur_ms' = d
    /\ probe' = "ok"
    /\ pc' = "probed"
    /\ UNCHANGED <<kvars, child, rpc, result, fvars, avars, uvars>>

\* probe_duration_seconds fails: spawn error, non-zero status or unparsable output
ProbeFail ==
    /\ pc = "validated"
    /\ probe' = "fail"
    /\ pc' = "done"
    /\ result' = "err"
    /\ UNCHANGED <<kvars, child, rpc, dur_ms, fvars, avars, uvars>>

\* the mapper results, the total and the argument vector main computes
\* between the probe and the spawn
Prepared ==
    /\ total_ms' = target_duration_ms(dur_ms, request.speed)
    /\ v_parts' = build_video_parts(request.speed, request.denoise, request.scale,
                                    request.sharpen, request.contrast,
                                    request.saturation, request.brightness)
    /\ v_filters' = build_video_filters(request.speed, request.denoise, request.scale,
                                        request.sharpen, request.contrast,
                                        request.saturation, request.brightness)
    /\ a_filters' = build_audio_filters(request.speed)[1]
    /\ a_codec' = build_audio_filters(request.speed)[2]
    /\ ff_args' = spawn_ffmpeg(request, v_filters', a_filters', a_codec')
    /\ LET ui == UiNew(total_ms', a_filters' # None)
       IN /\ position' = ui.position
          /\ spinner_msg' = ui.spinner_msg
          /\ bar_msg' = ui.bar_msg
          /\ finished' = ui.finished

\* main from the probe's return to the start of the consumer thread
Spawn ==
    /\ pc = "probed"
    /\ Prepared
    /\ child' = "running"
    /\ rpc' = "reading"
    /\ pc' = "waiting"
    /\ UNCHANGED <<kvars, request, fpc, last, seen, dur_ms, probe, result, avars>>

\* spawn() fails: main returns the error, no child and no consumer exist
SpawnFail ==
    /\ pc = "probed"
    /\ Prepared
    /\ pc' = "done"
    /\ result' = "err"
    /\ UNCHANGED <<kvars, request, fpc, last, seen, dur_ms, probe, child, rpc, avars>>

\* the encoder exits, with status zero or not, while the program runs
ChildExit ==
    /\ child = "running" /\ pc # "done"
    /\ \E st \in {"exit0", "exit1"} : child' = st
    /\ UNCHANGED <<kvars, pc, rpc, dur_ms, probe, result, fvars, avars, uvars>>

\* the out_time_ms value a line carries: Some(v) when the line matches, its
\* key is out_time_ms and its value parses, None otherwise
ParsedOutTime(line) ==
    LET caps == re_kv_captures(line)
    IN IF caps # None /\ Unwrap(caps)[1] = KeyOutTimeMs
       THEN ParseU64(Unwrap(caps)[2])
       ELSE None

\* the captures and the parsed out_time_ms value of every sampled line
LineCaps == [line \in Lines |-> re_kv_captures(line)]
LineParsed == [line \in Lines |-> ParsedOutTime(line)]

\* the consumer reads one line the encoder wrote and handles it; main's
\* return ends the process and with it the consumer thread
ReadLine ==
    /\ rpc = "reading" /\ pc # "done"
    /\ \E line \in Lines :
          LET ui == HandleCaps([position |-> position, spinner_msg |-> spinner_msg,
                                bar_msg |-> bar_msg, finished |-> finished],
                               total_ms, LineCaps[line])
          IN /\ position' = ui.position
             /\ spinner_msg' = ui.spinner_msg
             /\ bar_msg' = ui.bar_msg
             /\ finished' = ui.finished
             /\ last' = Some(line)
             /\ seen' = IF LineParsed[line] # None /\ Unwrap(LineParsed[line]) > seen
                        THEN Unwrap(LineParsed[line])
                        ELSE seen
    /\ UNCHANGED <<kvars, total_ms, rvars, fvars, avars>>

\* the stream ends once the encoder has exited: the loop ends with Ok(())
ReadEof ==
    /\ rpc = "reading" /\ pc # "done"
    /\ child \in {"exit0", "exit1"}
    /\ rpc' = "ok"
    /\ UNCHANGED <<kvars, pc, child, dur_ms, probe, result, fvars, avars, uvars>>

\* `line?`: a read fails and the consumer returns the error
ReadError ==
    /\ rpc = "reading" /\ pc # "done"
    /\ rpc' = "err"
    /\ UNCHANGED <<kvars, pc, child, dur_ms, probe, result, fvars, avars, uvars>>

\* child.wait() returns
Wait ==
    /\ pc = "waiting"
    /\ child \in {"exit0", "exit1"}
    /\ pc' = "joining"
    /\ UNCHANGED <<kvars, child, rpc, dur_ms, probe, result, fvars, avars, uvars>>

\* child.wait()? fails: main returns the error at once, without the join
WaitFail ==
    /\ pc = "waiting"
    /\ pc' = "done"
    /\ result' = "err"
    /\ UNCHANGED <<kvars, child, rpc, dur_ms, probe, fvars, avars, uvars>>

\* Join with the consumer's result, not the exit status, deciding the result
Join_ReaderDecides ==
    /\ pc = "joining"
    /\ rpc \in {"ok", "err"}
    /\ pc' = "done"
    /\ result' = IF rpc = "ok" THEN "ok" ELSE "err"
    /\ UNCHANGED <<kvars, child, rpc, dur_ms, probe, fvars, avars, uvars>>

\* let _ = reader_thread.join(); then the exit status decides the result
Join ==
    /\ pc = "joining"
    /\ rpc \in {"ok", "err"}
    /\ pc' = "done"
    /\ result' = IF child = "exit0" THEN "ok" ELSE "err"
    /\ UNCHANGED <<kvars, child, rpc, dur_ms, probe, fvars, avars, uvars>>

Next ==
    \/ Validate \/ ProbeOk \/ ProbeFail \/ Spawn \/ SpawnFail \/ ChildExit
    \/ ReadLine \/ ReadEof \/ ReadError \/ Wait \/ WaitFail \/ Join

Spec == Init /\ [][Next]_vars

\* the consumer thread and main are scheduled: a thread that can read the end
\* of the stream does, and main's wait and join return once they can
SpecFair == Spec /\ WF_vars(ReadEof) /\ WF_vars(Wait) /\ WF_vars(Join)

(***************************************************************************)
(* Properties of the parameter mapper                                      *)
(***************************************************************************)
NeutralKnob(k) == k = None \/ k = Some(50)

AllNeutral(r) ==
    /\ NeutralKnob(r.denoise) /\ NeutralKnob(r.sharpen) /\ NeutralKnob(r.contrast)
    /\ NeutralKnob(r.saturation) /\ NeutralKnob(r.brightness)
    /\ r.scale = None /\ r.speed = SU

\* C1: when every percentage knob is unset or exactly 50, scale is unset and
\* speed is 1.0, build_video_filters returns the empty string: no stage at all.
C1_NeutralGivesEmpty ==
    (fpc \in {"video", "audio", "spawned"} /\ AllNeutral(request))
        => (v_filters = "" /\ Len(v_parts) = 0)

C1_Witness ==
    /\ fpc = "video"
    /\ request.denoise = Some(50) /\ request.sharpen = Some(50)
    /\ request.contrast = Some(50) /\ request.saturation = None
    /\ request.brightness = Some(50)
    /\ request.scale = None /\ request.speed = SU
    /\ v_filters = ""

StageRank(kind) ==
    CASE kind = "hqdn3d" -> 1
      [] kind = "unsharp" -> 2
      [] kind = "eq" -> 3
      [] kind = "scale" -> 4
      [] kind = "setpts" -> 5
      [] OTHER -> 0

\* C2: the stages build_video_filters emits are in the order hqdn3d, unsharp,
\* eq, scale, setpts, each kind at most once, for every subset of knobs.
C2_StageOrder ==
    fpc \in {"video", "audio", "spawned"} =>
        /\ \A i \in 1..Len(v_parts) : StageRank(v_parts[i].kind) > 0
        /\ \A i \in 1..Len(v_parts) : \A j \in 1..Len(v_parts) :
              i < j => StageRank(v_parts[i].kind) < StageRank(v_parts[j].kind)

C2_Witness ==
    /\ fpc = "video"
    /\ Len(v_parts) = 5
    /\ v_parts[4].kind = "scale" /\ v_parts[5].kind = "setpts"

HasArg(args, a) == \E i \in 1..Len(args) : args[i] = a
HasPair(args, a, b) == \E i \in 1..(Len(args) - 1) : args[i] = a /\ args[i + 1] = b

\* C3: the encoder gets -c:v copy and no -vf exactly when the video filter
\* string is empty, and -c:a copy and no -af exactly when the audio chain is
\* absent; otherwise the stream is re-encoded with the filter string passed on.
C3_CopyIffUntouched ==
    fpc = "spawned" =>
        /\ (v_filters = "") <=> HasPair(ff_args, "-c:v", "copy")
        /\ (v_filters = "") <=> ~HasArg(ff_args, "-vf")
        /\ (v_filters # "") =>
              HasPair(ff_args, "-vf", v_filters) /\ HasPair(ff_args, "-c:v", "libx264")
        /\ (a_filters = None) <=> HasPair(ff_args, "-c:a", "copy")
        /\ (a_filters = None) <=> ~HasArg(ff_args, "-af")
        /\ (a_filters # None) =>
              HasPair(ff_args, "-af", Unwrap(a_filters)) /\ HasPair(ff_args, "-c:a", "aac")

C3_Witness ==
    /\ fpc = "spawned"
    /\ v_filters # "" /\ a_filters = None
    /\ HasPair(ff_args, "-c:v", "libx264") /\ HasPair(ff_args, "-c:a", "copy")

\* C4: build_audio_filters returns (None, [-c:a, copy]) when speed differs
\* from 1.0 by less than 0.001, and (Some(chain), [-c:a, aac, -b:a, 192k])
\* for every other speed.
C4_AudioCopyOrAac ==
    fpc \in {"audio", "spawned"} =>
        IF Abs(request.speed - SU) < SU \div 1000
        THEN a_filters = None /\ a_codec = <<"-c:a", "copy">>
        ELSE a_filters # None /\ a_codec = <<"-c:a", "aac", "-b:a", "192k">>

C4_Witness ==
    /\ fpc = "audio"
    /\ request.speed = SU + 7000
    /\ a_filters = None /\ a_codec = <<"-c:a", "copy">>

\* C5: every tempo stage build_audio_filters returns has a ratio within
\* [0.5, 2.0], the final residual stage included.
C5_TempoInRange ==
    apc = "done" =>
        \A i \in 1..Len(chain) :
            chain[i].args[1] >= 500000 /\ chain[i].args[1] <= 2000000

Ratios(ch) == [i \in 1..Len(ch) |-> ch[i].args[1]]

\* C6 as stated: speed 3.0 gives the stages 2.0, 1.5 and speed 0.2 gives the
\* stages 0.5, 0.4.
C6_AsStated ==
    /\ (apc = "done" /\ request.speed = 3 * SU) => Ratios(chain) = <<2000000, 1500000>>
    /\ (apc = "done" /\ request.speed = SU \div 5) => Ratios(chain) = <<500000, 400000>>

\* C6: speed 3.0 gives one 2.0 stage followed by a final stage at 1.5; speed
\* 0.2 gives two 0.5 stages followed by a final stage at 0.8.
C6_Decompose ==
    /\ (apc = "done" /\ request.speed = 3 * SU) =>
          /\ Ratios(chain) = <<2000000, 1500000>>
          /\ a_ret[1] = Some("atempo=2.0,atempo=1.500000")
    /\ (apc = "done" /\ request.speed = SU \div 5) =>
          /\ Ratios(chain) = <<500000, 500000, 800000>>
          /\ a_ret[1] = Some("atempo=0.5,atempo=0.5,atempo=0.800000")

C6_Witness ==
    /\ apc = "done" /\ request.speed = SU \div 5
    /\ Len(chain) = 3 /\ niter = 2

\* C7: for every positive speed the range reduction ends, with the remaining
\* factor within [0.5 - 1e-6, 2.0 + 1e-6], and the final residual stage is
\* in the chain exactly when the remaining factor is more than 1e-3 from 1.0.
C7_ReductionTerminates ==
    /\ <>(apc = "done")
    /\ []((apc = "done" /\ a_ret[1] # None) =>
            /\ s[1] <= (2 * SU + 10) * s[2]
            /\ 2 * s[1] >= (SU - 20) * s[2]
            /\ (Len(chain) = niter + 1) <=> (Abs(s[1] - SU * s[2]) > (SU \div 1000) * s[2])
            /\ Len(chain) \in {niter, niter + 1})

C7_Witness ==
    /\ apc = "done" /\ a_ret[1] # None
    /\ niter = 2 /\ Len(chain) = 2

(***************************************************************************)
(* Properties of the progress consumer                                     *)
(***************************************************************************)
OutTimeLine(v) == KvLine(KeyOutTimeMs, NumChars(v))

\* C8: after an out_time_ms line carrying the unsigned integer v the position
\* is min(v div 1000, total); the position never exceeds the total.
C8_PositionClamped ==
    /\ position <= total_ms
    /\ \A v \in OutTimeSamples :
          last = Some(OutTimeLine(v)) =>
              position = (IF v \div 1000 < total_ms THEN v \div 1000 ELSE total_ms)

C8_Witness ==
    /\ last = Some(OutTimeLine(12000000))
    /\ total_ms = 10000 /\ position = 10000

LastIsOutTime ==
    /\ last # None
    /\ \E i \in 1..Len(Unwrap(last)) :
          /\ SubSeq(Unwrap(last), 1, i) = KvLine(KeyOutTimeMs, <<>>)
          /\ i < Len(Unwrap(last))
          /\ \A j \in (i + 1)..Len(Unwrap(last)) : Unwrap(last)[j] \in ValueChars

\* C9: after an out_time_ms update the stage label depends on position/total
\* only: preparing in [0, 0.10), encoding video in [0.10, 0.65), audio in
\* [0.65, 0.95), finalizing in [0.95, 1.0]; total 10000 with
\* out_time_ms=5000000 gives position 5000 and the encoding-video label.
C9_StageByFraction ==
    /\ LastIsOutTime =>
          /\ (10 * position < total_ms) => spinner_msg = "Preparing filters."
          /\ (10 * position >= total_ms /\ 100 * position < 65 * total_ms)
                => spinner_msg = "Encoding video."
          /\ (100 * position >= 65 * total_ms /\ 100 * position < 95 * total_ms)
                => spinner_msg = "Adjusting/encoding audio."
          /\ (100 * position >= 95 * total_ms) => spinner_msg = "Finalizing and muxing."
    /\ (total_ms = 10000 /\ last = Some(OutTimeLine(5000000)))
          => (position = 5000 /\ spinner_msg = "Encoding video.")

C9_Witness ==
    /\ total_ms = 10000 /\ last = Some(OutTimeLine(5000000))
    /\ position = 5000 /\ spinner_msg = "Encoding video."

\* C10: a progress=end line marks completion whatever the position was, and
\* once completion is marked no later line changes the position or the label.
C10_EndStopsInference ==
    /\ [](last = Some(LineEnd) => finished)
    /\ [][finished => (position' = position /\ spinner_msg' = spinner_msg)]_vars

\* the sampled lines that fail the pattern (a value with a slash, the empty
\* line, no '=', an empty key, two '=') and the ones that match with a key
\* other than out_time_ms and a progress value other than end
UnmatchedLines == {LineNA, LineEmpty, LineNoEq, LineNoKey, LineTwoEq}
OtherKeyLines == {LineFrame, LineOutTime, LineContinue}
IgnoredLines == UnmatchedLines \cup OtherKeyLines
IgnoredRead == {Some(line) : line \in IgnoredLines}

\* C11: reading a line that fails the key=value pattern, or whose key is
\* neither out_time_ms nor progress with value end, leaves the position, the
\* stage label, the bar message and the completion flag as they were, and the
\* consumer is still reading after it.
C11_IgnoredLineNoEffect ==
    [][(last' \in IgnoredRead /\ ReadLine)
          => /\ position' = position
             /\ spinner_msg' = spinner_msg
             /\ bar_msg' = bar_msg
             /\ finished' = finished
             /\ rpc' = "reading"]_vars

\* an unmatched line was read after an update: position and label are kept
C11_Witness ==
    /\ last = Some(LineNA) /\ rpc = "reading"
    /\ total_ms = 10000 /\ position = 5000 /\ spinner_msg = "Encoding video."
    /\ ~finished

\* the sampled out_time_ms lines whose value matches the pattern and is not
\* an unsigned 64-bit integer: a negative number and one of 23 digits
UnparseableRead == {Some(LineNegative), Some(LineOverflow)}

\* C12: an out_time_ms line whose value matches the pattern and does not
\* parse as an unsigned integer acts as out_time_ms=0: the position becomes
\* 0 with the label of fraction 0, the consumer is still reading after it,
\* and neither the consumer nor the run gets an error from it.
C12_UnparseableIsZero ==
    /\ [](last \in UnparseableRead
             => (position = 0 /\ spinner_msg = "Preparing filters."))
    /\ [][(last' \in UnparseableRead /\ ReadLine)
             => /\ position' = 0
                /\ spinner_msg' = "Preparing filters."
                /\ bar_msg' = "Applying selected filters (if any)..."
                /\ rpc' = "reading"
                /\ result' = result]_vars

\* out_time_ms=-5 was read and the consumer reads on
C12_Witness ==
    /\ last = Some(LineNegative) /\ rpc = "reading"
    /\ total_ms = 10000 /\ position = 0 /\ seen = 5000000
    /\ spinner_msg = "Preparing filters."

\* C13: for a duration D >= 0 and a speed > 0 the total is floor(D * 1000)
\* when the speed is within 0.0005 of 1.0 and floor((D / speed) * 1000)
\* otherwise, raised to 1 when that is below 1; it is always at least 1.
\* With D in whole ms, q is the floor of D / speed iff
\* q * speed <= D < (q + 1) * speed.
C13_TargetDuration ==
    pc = "totalled" =>
        LET near == Abs(request.speed - SU) < SU \div 2000
            num == dur_ms * SU
        IN /\ total_ms >= 1
           /\ near => total_ms = (IF dur_ms < 1 THEN 1 ELSE dur_ms)
           /\ (~near /\ num < request.speed) => total_ms = 1
           /\ (~near /\ num >= request.speed)
                 => /\ total_ms * request.speed <= num
                    /\ num < (total_ms + 1) * request.speed

\* 1 ms at speed 3.0 is a third of a millisecond, raised to the 1 ms floor
C13_Witness ==
    /\ pc = "totalled" /\ dur_ms = 1 /\ request.speed = 3 * SU /\ total_ms = 1

\* C14: when the consumer ended with an I/O error, the run that has returned
\* after waiting for the encoder returned an error, also when the encoder
\* exited with status zero.
C14_ReaderErrorIsFatal ==
    (pc = "done" /\ rpc = "err") => result = "err"

\* the three validations of a request
ValidRequest ==
    request.tools_found /\ request.input_exists /\ request.speed > 0

\* C15: the prober has run only for a request that passed every validation;
\* the encoder has been started only after the prober succeeded; after a
\* validation error or a prober failure no encoder and no consumer exist,
\* no argument vector was built, and the finished run returned an error.
C15_StartOrder ==
    /\ probe # "none" => ValidRequest
    /\ child # "none" => (ValidRequest /\ probe = "ok")
    /\ (~ValidRequest \/ probe = "fail")
          => (child = "none" /\ rpc = "none" /\ ff_args = <<>>)
    /\ (pc = "done" /\ (~ValidRequest \/ probe = "fail")) => result = "err"

\* the prober failed on a valid request and the run ended without an encoder
C15_Witness ==
    /\ pc = "done" /\ ValidRequest /\ probe = "fail"
    /\ child = "none" /\ result = "err"

\* C16: a run that has returned after its encoder exited with a non-zero
\* status returned an error, whatever line was read last and whether or not
\* completion was marked; an encoder that has exited is never started again
\* and a run that has returned does nothing more.
C16_NonZeroExitIsFatal ==
    /\ []((pc = "done" /\ child = "exit1") => result = "err")
    /\ [][(child \in {"exit0", "exit1"} => child' = child)
             /\ (pc = "done" => (pc' = "done" /\ child' = child
                                   /\ result' = result))]_vars

\* progress=end was read and completion marked, yet the encoder exited
\* non-zero and the run returned an error
C16_Witness ==
    /\ pc = "done" /\ child = "exit1" /\ result = "err"
    /\ last = Some(LineEnd) /\ finished /\ rpc = "ok"

\* C17: for percentages p <= q in 0..100 the denoise luma and temporal
\* strengths (0 for p <= 50), the sharpen amount, the contrast and saturation
\* multipliers and the brightness offset at p are each <= the value at q;
\* norm(0) = -1, norm(50) = 0, norm(100) = 1 and norm is linear: it grows by
\* 1/50 per percent.  norm is held in hundredths.
C17_MonotoneKnobs ==
    derived # None =>
        LET p == pcts[1]
            q == pcts[2]
            lo == Unwrap(derived).lo
            hi == Unwrap(derived).hi
        IN /\ lo.luma <= hi.luma /\ lo.temporal <= hi.temporal
           /\ lo.sharpen <= hi.sharpen
           /\ lo.contrast <= hi.contrast /\ lo.saturation <= hi.saturation
           /\ lo.brightness <= hi.brightness
           /\ lo.norm <= hi.norm
           /\ p <= 50 => (lo.luma = 0 /\ lo.temporal = 0)
           /\ p = 0 => lo.norm = -100
           /\ p = 50 => lo.norm = 0
           /\ q = 100 => hi.norm = 100
           /\ 50 * (hi.norm - lo.norm) = 100 * (q - p)

\* 25 and 75 percent: norm -0.5 and 0.5, denoise off and on
C17_Witness ==
    /\ pcts = <<25, 75>> /\ derived # None
    /\ Unwrap(derived).lo.norm = -50 /\ Unwrap(derived).hi.norm = 50
    /\ Unwrap(derived).lo.luma = 0 /\ Unwrap(derived).hi.luma > 0
    /\ Unwrap(derived).lo.sharpen < 0 /\ Unwrap(derived).hi.sharpen > 0

\* C18: main joins the consumer only after the wait for the encoder's exit
\* has returned; once the encoder has exited the consumer eventually ends and
\* main eventually returns; a run whose encoder was started has never
\* returned while its consumer is still reading.
C18_WaitThenJoin ==
    /\ [](pc = "joining" => child \in {"exit0", "exit1"})
    /\ []((pc = "done" /\ child # "none") => rpc \in {"ok", "err"})
    /\ (child \in {"exit0", "exit1"}) ~> (rpc \in {"ok", "err"})
    /\ (child \in {"exit0", "exit1"}) ~> (pc = "done")

\* C19: for every positive speed the video filter graph holds the setpts
\* stage exactly when build_audio_filters returned a tempo chain: video and
\* audio are retimed together or not at all.
C19_RetimeTogether ==
    fpc \in {"audio", "spawned"}
        => ((\E i \in 1..Len(v_parts) : v_parts[i].kind = "setpts")
               <=> a_filters # None)

\* the line of the step carries no parseable out_time_ms value, or one that
\* is at least every parseable value read before it
ReadInOrder ==
    /\ last' # None
    /\ \/ LineParsed[Unwrap(last')] = None
       \/ Unwrap(LineParsed[Unwrap(last')]) >= seen

\* C20 as stated: while the parseable out_time_ms values arrive in
\* non-decreasing order no step lowers the position, whatever other lines
\* (unparseable out_time_ms values, other keys) are read in between.
C20_AsStated ==
    [][ReadInOrder => position' >= position]_vars

\* C20: while completion has not been marked and the parseable out_time_ms
\* values arrive in non-decreasing order, no step lowers the position unless
\* it reads an out_time_ms line with an unparseable value (which sets it to
\* 0); unmatched lines and lines with other keys leave it as it is.
C20_MonotoneUntilEnd ==
    [][(ReadInOrder /\ ~finished /\ last' \notin UnparseableRead)
          => position' >= position]_vars

\* a line with another key was read after out_time_ms=5000000 and the
\* position is still the 5000 of that update
C20_Witness ==
    /\ last = Some(LineFrame) /\ seen = 5000000
    /\ total_ms = 10000 /\ position = 5000 /\ ~finished /\ rpc = "reading"

====
